---- MODULE Spec2Model ----
(***************************************************************************)
(* BridgeTroll: reconciliation of the traffic a satellite ISP bills for a  *)
(* router (Starlink) against the traffic the flow-accounting source (Ares) *)
(* counted on the router's Starlink interface.                             *)
(*                                                                         *)
(* Representation.                                                         *)
(*   - A date string "YYYY-MM-DD" is the tuple <<y, m, d>>; a timestamp    *)
(*     string "YYYY-MM-DDTHH:.." is <<y, m, d, h>>; the query string       *)
(*     "YYYY-MM-DD HH:MM:SS" is <<y, m, d, H, M, S>>.  Fixed-width,        *)
(*     zero-padded strings compare like these tuples, lexicographically.   *)
(*   - Quantities in GB are integers in units of 0.001 GB.                 *)
(*   - Octet counters are integers in units of 10^7 octets, so the factor  *)
(*     1e-9 GB per octet is 10 units of 0.001 GB per counter unit.         *)
(*   - ares_traffic, the concatenation of the lines attributed to a        *)
(*     router, is the sequence of those lines; a line ends with its        *)
(*     counter value, so a value is followed directly by the first         *)
(*     characters of the next attributed line.                             *)
(*   - A dict is a function together with the sequence of its keys in      *)
(*     insertion order.                                                    *)
(***************************************************************************)
EXTENDS Integers, Sequences, FiniteSets, TLC

VARIABLES
    pc,             \* position of main()
    nLines,         \* service lines fetched so far by get_star_routers
    line,           \* get_star_routers' loop variable: the service line in hand
    star_routers,   \* dict: canonical name -> StarlinkRouter
    star_order,     \* insertion order of star_routers' keys
    START_DATE,     \* module global
    END_DATE,       \* module global
    host_offset,    \* UTC offset (hours east) of the host's local timezone
    ares_query,     \* the (start_date, end_date) handed to ares_api.web_adb
    results,        \* dict returned by compare_traffic
    report,         \* what report_to_file wrote
    lte_pc,         \* position of lte_bridgetroll's main()
    lte_routers,    \* lte_bridgetroll's dict: iccid -> router data
    lte_results     \* dict returned by lte_bridgetroll's compare_traffic

lteVars == <<lte_pc, lte_routers, lte_results>>

vars == <<pc, nLines, line, star_routers, star_order, START_DATE, END_DATE,
          host_offset, ares_query, results, report, lteVars>>

(***************************************************************************)
(* Bounds                                                                  *)
(***************************************************************************)
MaxLines == 2       \* service lines returned by the billing API
MaxCycles == 2      \* billing cycles in one payload (single-line runs)
MaxBlobLines == 2   \* lines in the flow-accounting blob
MaxIccids == 12     \* routers JOVE reports as recent

(***************************************************************************)
(* Values                                                                  *)
(***************************************************************************)
None == "None"                  \* no match object
NoResponse == [none |-> TRUE]   \* a falsy API response
NoLine == [none |-> TRUE]       \* the loop variable before the first iteration
NotCalled == [called |-> FALSE] \* web_adb has not been invoked
EmptyStr == <<>>                \* '' where a date string is expected
NoneStr == <<"None">>           \* None where a date string is expected
EmptyDict == [n \in {} |-> None]

\* canonical router names; "2B" stands for a name that begins with a digit
Names == {"R1", "2B"}

\* str.upper() on the identifiers that occur
Upper(s) ==
    CASE s = "r1" -> "R1"
      [] s = "2b" -> "2B"
      [] OTHER -> s

\* truthiness of a Python string
Truthy(s) == s # ""

(***************************************************************************)
(* Calendar arithmetic of datetime                                         *)
(***************************************************************************)
IsLeap(y) == (y % 4 = 0 /\ y % 100 # 0) \/ y % 400 = 0

DaysInMonth(y, m) ==
    IF m = 2 THEN (IF IsLeap(y) THEN 29 ELSE 28)
    ELSE IF m \in {4, 6, 9, 11} THEN 30 ELSE 31

PrevDay(dt) ==
    IF dt.day > 1 THEN [dt EXCEPT !.day = dt.day - 1]
    ELSE IF dt.month > 1
         THEN [dt EXCEPT !.month = dt.month - 1,
                         !.day = DaysInMonth(dt.year, dt.month - 1)]
         ELSE [dt EXCEPT !.year = dt.year - 1, !.month = 12, !.day = 31]

NextDay(dt) ==
    IF dt.day < DaysInMonth(dt.year, dt.month) THEN [dt EXCEPT !.day = dt.day + 1]
    ELSE IF dt.month < 12
         THEN [dt EXCEPT !.month = dt.month + 1, !.day = 1]
         ELSE [dt EXCEPT !.year = dt.year + 1, !.month = 1, !.day = 1]

\* dt + timedelta(hours=h), for -24 < h < 24
AddHours(dt, h) ==
    LET hh == dt.hour + h IN
    IF hh < 0 THEN [PrevDay(dt) EXCEPT !.hour = hh + 24]
    ELSE IF hh >= 24 THEN [NextDay(dt) EXCEPT !.hour = hh - 24]
    ELSE [dt EXCEPT !.hour = hh]

\* datetime.strptime(s, "%Y-%m-%d"): a naive datetime at midnight
Strptime(s) ==
    [year |-> s[1], month |-> s[2], day |-> s[3],
     hour |-> 0, minute |-> 0, second |-> 0]

\* dt.strftime("%Y-%m-%d %H:%M:%S")
Strftime(dt) == <<dt.year, dt.month, dt.day, dt.hour, dt.minute, dt.second>>

\* naive.astimezone(pytz.utc): the naive value is taken as host-local time
\* and re-expressed in UTC
AsTimezoneUtc(dt, offset) == AddHours(dt, 0 - offset)

(***************************************************************************)
(* StarlinkRouter                                                          *)
(***************************************************************************)
\* a < b for two fixed-width strings given as tuples of equal length
RECURSIVE StrLess(_, _)
StrLess(a, b) ==
    IF a = <<>> \/ b = <<>> THEN FALSE
    ELSE IF Head(a) # Head(b) THEN Head(a) < Head(b)
    ELSE StrLess(Tail(a), Tail(b))

\* s[:10] of a timestamp string: its date
Trunc10(s) == <<s[1], s[2], s[3]>>

\* the first cycle of the array, whatever its start
MinCycleFirstInArray(cycles) == cycles[1]

\* min(cycles, key=lambda x: x['startDate']): the first cycle no other
\* cycle starts before

MinCycle(cycles) ==
    LET minimal(i) == \A j \in 1..Len(cycles) :
                          ~StrLess(cycles[j].startDate, cycles[i].startDate)
        k == CHOOSE i \in 1..Len(cycles) :
                 minimal(i) /\ \A j \in 1..(i - 1) : ~minimal(j)
    IN cycles[k]

\* min() of an empty sequence raises ValueError
Raised == [raised |-> TRUE]

\* set_dates falling back to an empty window instead of raising
SetDatesDefaultWindow(star_traffic) ==
    IF Len(star_traffic.billingCycles) = 0
    THEN [raised |-> FALSE, start_date |-> EmptyStr, end_date |-> EmptyStr]
    ELSE LET cycle == MinCycle(star_traffic.billingCycles)
         IN [raised |-> FALSE,
             start_date |-> Trunc10(cycle.startDate),
             end_date |-> Trunc10(cycle.endDate)]

SetDates(star_traffic) ==
    IF Len(star_traffic.billingCycles) = 0 THEN Raised
    ELSE LET cycle == MinCycle(star_traffic.billingCycles)
         IN [raised |-> FALSE,
             start_date |-> Trunc10(cycle.startDate),
             end_date |-> Trunc10(cycle.endDate)]

\* StarlinkRouter(name=, star_sln=, star_traffic=): the constructed object,
\* or the exception set_dates raised
NewRouter(name, sln, star_traffic) ==
    LET dates == SetDates(star_traffic) IN
    IF dates.raised THEN Raised
    ELSE [raised |-> FALSE,
          obj |-> [name |-> name,
                   star_sln |-> sln,
                   star_traffic |-> star_traffic,
                   start_date |-> dates.start_date,
                   end_date |-> dates.end_date,
                   venus_interface |-> "",
                   ares_traffic |-> <<>>]]

LeewayBase == 1000      \* leeway = 1
LeewayPerBin == 10      \* leeway += 0.01

\* the inner loop of calc_star_total over one day's bins
RECURSIVE AddBins(_, _)
AddBins(acc, bins) ==
    IF bins = <<>> THEN acc
    ELSE AddBins([star_total |-> acc.star_total + Head(bins).totalGB,
                  leeway |-> acc.leeway + LeewayPerBin],
                 Tail(bins))

\* the outer loop of calc_star_total over the cycle's days
RECURSIVE AddDays(_, _)
AddDays(acc, days) ==
    IF days = <<>> THEN acc
    ELSE AddDays(AddBins(acc, Head(days).dataUsageBins), Tail(days))

RECURSIVE AddCycles(_, _)
AddCycles(acc, cycles) ==
    IF cycles = <<>> THEN acc
    ELSE AddCycles(AddDays(acc, Head(cycles).dailyDataUsages), Tail(cycles))

\* calc_star_total folding in the bins of every cycle of the payload
CalcStarTotalEveryCycle(router) ==
    AddCycles([star_total |-> 0, leeway |-> LeewayBase],
              router.star_traffic.billingCycles)

CalcStarTotal(router) ==
    LET cycle == MinCycle(router.star_traffic.billingCycles)
    IN AddDays([star_total |-> 0, leeway |-> LeewayBase], cycle.dailyDataUsages)

\* re.search(fr',{venus_interface},IF-MIB\.<counter>,=,(\d+)', ares_traffic):
\* index of the first accumulated line that matches, 0 when none does
Search(router, counter) ==
    LET hits == {i \in 1..Len(router.ares_traffic) :
                    /\ router.ares_traffic[i].iface = router.venus_interface
                    /\ router.ares_traffic[i].counter = counter}
    IN IF hits = {} THEN 0
       ELSE CHOOSE i \in hits : \A j \in hits : i <= j

\* how many decimal digits a line's first 8 characters begin with
LeadingDigits(prefix) == IF prefix \in {"2B", "2b"} THEN 1 ELSE 0

RECURSIVE Pow10(_)
Pow10(k) == IF k = 0 THEN 1 ELSE 10 * Pow10(k - 1)

\* group(1) of the match in line i: (\d+) takes the value and runs on through
\* the digits that begin the next line of ares_traffic, which follows without
\* a separator; the digits run into stay below one counter unit
Group1(router, i) ==
    LET k == IF i < Len(router.ares_traffic)
             THEN LeadingDigits(router.ares_traffic[i + 1].prefix)
             ELSE 0
    IN router.ares_traffic[i].value * Pow10(k)

\* float(digits) * 0.000000001
OctetsToGB(value) == value * 10

CalcAresTotal(router) ==
    LET in_search == Search(router, "ifHCInOctets")
        out_search == Search(router, "ifHCOutOctets")
    IN (IF in_search # 0 THEN OctetsToGB(Group1(router, in_search)) ELSE 0)
       + (IF out_search # 0 THEN OctetsToGB(Group1(router, out_search)) ELSE 0)

(***************************************************************************)
(* compare_traffic                                                         *)
(***************************************************************************)
OverLeewayNoClamp(star_total, ares_total, leeway) ==
    LET overage == star_total - ares_total IN
    IF overage > 0 THEN star_total - ares_total - leeway
    ELSE IF overage < 0 THEN star_total - ares_total + leeway
    ELSE 0

OverLeewayOneSided(star_total, ares_total, leeway) ==
    LET overage == star_total - ares_total IN
    IF overage > 0
    THEN (IF star_total - ares_total - leeway < 0 THEN 0
          ELSE star_total - ares_total - leeway)
    ELSE 0

OverLeewayWholeGB(star_total, ares_total, leeway) ==
    LET overage == star_total - ares_total IN
    IF overage > 0
    THEN (IF star_total - ares_total - leeway < LeewayBase THEN 0
          ELSE star_total - ares_total - leeway)
    ELSE IF overage < 0
    THEN (IF star_total - ares_total + leeway > 0 THEN 0
          ELSE star_total - ares_total + leeway)
    ELSE 0

OverLeeway(star_total, ares_total, leeway) ==
    LET overage == star_total - ares_total IN
    IF overage > 0
    THEN (IF star_total - ares_total - leeway < 0 THEN 0
          ELSE star_total - ares_total - leeway)
    ELSE IF overage < 0
    THEN (IF star_total - ares_total + leeway > 0 THEN 0
          ELSE star_total - ares_total + leeway)
    ELSE 0

\* the body of compare_traffic's loop: the record stored under the name
CompareRouter(router) ==
    LET star == CalcStarTotal(router)
        ares_total == CalcAresTotal(router)
    IN [star_total |-> star.star_total,
        leeway |-> star.leeway,
        ares_total |-> ares_total,
        overage |-> star.star_total - ares_total,
        over_leeway |-> OverLeeway(star.star_total, ares_total, star.leeway)]

(***************************************************************************)
(* Inputs handed in by the API clients                                     *)
(***************************************************************************)
Bin(gb) == [totalGB |-> gb]
Day(bins) == [dataUsageBins |-> bins]

\* 120.000 GB in 5 bins
CycSep == [startDate |-> <<2024, 9, 1, 0>>, endDate |-> <<2024, 10, 1, 0>>,
           dailyDataUsages |-> <<Day(<<Bin(24000), Bin(24000)>>),
                                 Day(<<Bin(24000), Bin(24000), Bin(24000)>>)>>]
\* 130.000 GB in 5 bins
CycOct == [startDate |-> <<2024, 10, 1, 0>>, endDate |-> <<2024, 11, 1, 0>>,
           dailyDataUsages |-> <<Day(<<Bin(26000), Bin(26000), Bin(26000)>>),
                                 Day(<<>>),
                                 Day(<<Bin(26000), Bin(26000)>>)>>]
\* 119.010 GB in 1 bin
CycFeb == [startDate |-> <<2024, 2, 1, 0>>, endDate |-> <<2024, 3, 1, 0>>,
           dailyDataUsages |-> <<Day(<<Bin(119010)>>)>>]
\* 59.500 GB in 1 bin
CycJan == [startDate |-> <<2024, 1, 1, 0>>, endDate |-> <<2024, 2, 1, 0>>,
           dailyDataUsages |-> <<Day(<<Bin(59500)>>)>>]
\* no usage at all
CycDec == [startDate |-> <<2023, 12, 1, 0>>, endDate |-> <<2024, 1, 1, 0>>,
           dailyDataUsages |-> <<>>]
\* starts on the same date as CycSep, twelve hours later
CycSepNoon == [startDate |-> <<2024, 9, 1, 12>>, endDate |-> <<2024, 9, 15, 0>>,
               dailyDataUsages |-> <<Day(<<Bin(500)>>)>>]

Cycles == {CycSep, CycOct, CycFeb, CycJan, CycDec, CycSepNoon}

SeqsUpTo(S, n) == UNION {[1..k -> S] : k \in 0..n}

Content(cycles) == [content |-> [billingCycles |-> cycles]]

\* get_data_usage responses of a batch run
BatchUsages ==
    {NoResponse} \cup {Content(c) : c \in {<<>>, <<CycSep>>, <<CycOct, CycSep>>,
                                     <<CycOct>>, <<CycFeb>>, <<CycJan>>, <<CycDec>>}}

\* get_data_usage responses of a single-line run
SingleUsages == {NoResponse} \cup {Content(c) : c \in SeqsUpTo(Cycles, MaxCycles)}

\* a nickname is its text split at '-'; a segment is 'SK' + rest or rest
Seg(sk, rest) == [sk |-> sk, rest |-> rest]

Nicknames ==
    { <<>>,                                                        \* ''
      <<Seg(FALSE, "site"), Seg(TRUE, "r1"), Seg(FALSE, "01")>>,   \* site-SKr1-01
      <<Seg(FALSE, "site"), Seg(TRUE, "R1"), Seg(FALSE, "02")>>,   \* site-SKR1-02
      <<Seg(FALSE, "site"), Seg(TRUE, "2B"), Seg(FALSE, "01")>>,   \* site-SK2B-01
      <<Seg(TRUE, "r1"), Seg(FALSE, "spare")>>,                    \* SKr1-spare
      <<Seg(FALSE, "dish"), Seg(FALSE, "7")>> }                    \* dish-7

ServiceLine(active, sln, nickname, usage) ==
    [active |-> active, serviceLineNumber |-> sln, nickname |-> nickname,
     usage |-> usage]

ServiceLines(usages) ==
    {ServiceLine(TRUE, "SL1", k, u) : k \in Nicknames, u \in usages}
    \cup {ServiceLine(FALSE, "SL1", <<Seg(FALSE, "site"), Seg(TRUE, "2B"),
                                      Seg(FALSE, "01")>>, Content(<<CycSep>>)),
          ServiceLine(TRUE, "", <<Seg(FALSE, "site"), Seg(TRUE, "2B"),
                                  Seg(FALSE, "01")>>, Content(<<CycSep>>))}

Link(isp, interface) == [isp |-> isp, interface |-> interface]
VenusRouter(name, links) == [name |-> name, links |-> links]

VenusPulls ==
    LET v1 == VenusRouter("r1", <<Link("Starlink", "eth0")>>)
        v2 == VenusRouter("2B", <<Link("Other", "eth9"), Link("Starlink", "eth0")>>)
        v1n == VenusRouter("R1", <<>>)
        v2o == VenusRouter("2B", <<Link("Other", "eth9")>>)
        v9 == VenusRouter("R9", <<Link("Starlink", "eth0")>>)
    IN {<<>>, <<v1>>, <<v2>>, <<v1, v2>>, <<v1n, v2>>, <<v1, v2o>>, <<v9, v1>>}

\* a blob line: its first 8 characters, its 9th character ("" when the line
\* is shorter), and the interface, counter and value fields
AresLine(prefix, ch9, iface, counter, value) ==
    [prefix |-> prefix, ch9 |-> ch9, iface |-> iface, counter |-> counter,
     value |-> value]

AresLines ==
    { AresLine("R1", "-", "eth0", "ifHCInOctets", 6000),
      AresLine("R1", "-", "eth0", "ifHCOutOctets", 5800),
      AresLine("2b", "-", "eth0", "ifHCInOctets", 11800),
      AresLine("2B", "-", "eth0", "ifHCOutOctets", 5800),
      AresLine("R1", "-", "eth9", "ifHCInOctets", 100),
      AresLine("R9", "-", "eth0", "ifHCInOctets", 100),
      AresLine("R1", "x", "eth0", "ifHCInOctets", 100),
      AresLine("", "", "", "", 0) }

Blobs == SeqsUpTo(AresLines, MaxBlobLines)

HostOffsets == {-7, 0, 7}

(***************************************************************************)
(* get_star_routers                                                        *)
(***************************************************************************)
\* re.search(r'-SK([^-]+)-', star_name): group(1) of the first match
RouterSearch(nickname) ==
    LET hits == {i \in 2..(Len(nickname) - 1) :
                    nickname[i].sk /\ nickname[i].rest # ""}
    IN IF hits = {} THEN None
       ELSE nickname[CHOOSE i \in hits : \A j \in hits : i <= j].rest

\* the service line gets as far as constructing a StarlinkRouter
Constructs(l) ==
    /\ l.active
    /\ Truthy(l.serviceLineNumber)
    /\ l.nickname # <<>>
    /\ RouterSearch(l.nickname) # None
    /\ l.usage # NoResponse

\* d[k] = v on a dict
Put(d, k, v) == [n \in DOMAIN d \cup {k} |-> IF n = k THEN v ELSE d[n]]
PutOrder(order, d, k) == IF k \in DOMAIN d THEN order ELSE Append(order, k)

\* one iteration of the loop over the service lines
GetServiceLine(usages, maxLines) ==
    /\ pc = "get_star_routers"
    /\ nLines < maxLines
    /\ \E l \in ServiceLines(usages) :
        /\ line' = l
        /\ nLines' = nLines + 1
        /\ IF Constructs(l)
           THEN LET router_name == Upper(RouterSearch(l.nickname))
                    sl_router == NewRouter(router_name, l.serviceLineNumber,
                                           l.usage.content)
                IN IF sl_router.raised
                   THEN /\ pc' = "error"
                        /\ UNCHANGED <<star_routers, star_order, START_DATE, END_DATE>>
                   ELSE /\ pc' = pc
                        /\ star_routers' = Put(star_routers, router_name, sl_router.obj)
                        /\ star_order' = PutOrder(star_order, star_routers, router_name)
                        /\ IF START_DATE = EmptyStr
                           THEN /\ START_DATE' = sl_router.obj.start_date
                                /\ END_DATE' = sl_router.obj.end_date
                           ELSE UNCHANGED <<START_DATE, END_DATE>>
           ELSE UNCHANGED <<pc, star_routers, star_order, START_DATE, END_DATE>>
    /\ UNCHANGED <<host_offset, ares_query, results, report, lteVars>>

\* the last page has been read: get_star_routers returns
ReturnStarRouters ==
    /\ pc = "get_star_routers"
    /\ pc' = "get_venus_interfaces"
    /\ line' = NoLine
    /\ UNCHANGED <<nLines, star_routers, star_order, START_DATE, END_DATE,
                   host_offset, ares_query, results, report, lteVars>>

(***************************************************************************)
(* get_venus_interfaces                                                    *)
(***************************************************************************)
\* the loop over one venus router's links
RECURSIVE SetInterface(_, _)
SetInterface(router, links) ==
    IF links = <<>> THEN router
    ELSE SetInterface(IF Head(links).isp = "Starlink"
                      THEN [router EXCEPT !.venus_interface = Head(links).interface]
                      ELSE router,
                      Tail(links))

\* the loop over the venus routers
RECURSIVE ApplyVenus(_, _)
ApplyVenus(routers, venus_routers) ==
    IF venus_routers = <<>> THEN routers
    ELSE LET router_name == Upper(Head(venus_routers).name)
         IN ApplyVenus(
                IF router_name \in DOMAIN routers
                THEN [routers EXCEPT ![router_name] =
                         SetInterface(routers[router_name], Head(venus_routers).links)]
                ELSE routers,
                Tail(venus_routers))

GetVenusInterfaces ==
    /\ pc = "get_venus_interfaces"
    /\ \E venus_routers \in VenusPulls :
           star_routers' = ApplyVenus(star_routers, venus_routers)
    /\ pc' = "get_ares_traffic"
    /\ UNCHANGED <<nLines, line, star_order, START_DATE, END_DATE,
                   host_offset, ares_query, results, report, lteVars>>

(***************************************************************************)
(* get_ares_traffic                                                        *)
(***************************************************************************)
\* the window computed from the reference router
AresWindow(star_router, offset) ==
    LET start_datetime == Strptime(star_router.start_date)
        end_datetime == PrevDay(Strptime(star_router.end_date))
    IN [called |-> TRUE,
        start_date |-> Strftime(AsTimezoneUtc(start_datetime, offset)),
        end_date |-> Strftime(AsTimezoneUtc(end_datetime, offset))]

\* start_date and end_date as they stand when the query is formatted
QueryDates(routers, order, offset) ==
    IF order # <<>>
    THEN AresWindow(routers[order[1]], offset)
    ELSE [called |-> TRUE, start_date |-> NoneStr, end_date |-> NoneStr]

\* the loop over the blob's lines; line[8] raises IndexError on a line
\* shorter than 9 characters
RECURSIVE AddAresLines(_, _)
AddAresLines(routers, lines) ==
    IF lines = <<>> THEN [raised |-> FALSE, routers |-> routers]
    ELSE IF Head(lines).ch9 = "" THEN [raised |-> TRUE, routers |-> routers]
    ELSE LET line_router == Upper(Head(lines).prefix)
         IN AddAresLines(
                IF Head(lines).ch9 = "-" /\ line_router \in DOMAIN routers
                THEN [routers EXCEPT ![line_router].ares_traffic =
                         Append(@, Head(lines))]
                ELSE routers,
                Tail(lines))

GetAresTraffic ==
    /\ pc = "get_ares_traffic"
    /\ ares_query' = QueryDates(star_routers, star_order, host_offset)
    /\ \E blob \in Blobs :
        LET res == AddAresLines(star_routers, blob)
        IN /\ star_routers' = res.routers
           /\ pc' = IF res.raised THEN "error" ELSE "compare_traffic"
    /\ UNCHANGED <<nLines, line, star_order, START_DATE, END_DATE,
                   host_offset, results, report, lteVars>>

(***************************************************************************)
(* compare_traffic                                                         *)
(***************************************************************************)
CompareTraffic ==
    /\ pc = "compare_traffic"
    /\ results' = [name \in DOMAIN star_routers |-> CompareRouter(star_routers[name])]
    /\ pc' = "report_to_file"
    /\ UNCHANGED <<nLines, line, star_routers, star_order, START_DATE, END_DATE,
                   host_offset, ares_query, report, lteVars>>

(***************************************************************************)
(* report_to_file                                                          *)
(***************************************************************************)
NoReport == [written |-> FALSE]

\* the header line and the routers that get a section
ReportToFile ==
    /\ pc = "report_to_file"
    /\ report' = [written |-> TRUE,
                  header |-> <<START_DATE, END_DATE>>,
                  sections |-> {name \in DOMAIN results :
                                   results[name].over_leeway # 0}]
    /\ pc' = "done"
    /\ UNCHANGED <<nLines, line, star_routers, star_order, START_DATE, END_DATE,
                   host_offset, ares_query, results, lteVars>>

(***************************************************************************)
(* Specifications                                                          *)
(***************************************************************************)
Init ==
    /\ pc = "get_star_routers"
    /\ nLines = 0
    /\ line = NoLine
    /\ star_routers = EmptyDict
    /\ star_order = <<>>
    /\ START_DATE = EmptyStr
    /\ END_DATE = EmptyStr
    /\ host_offset \in HostOffsets
    /\ ares_query = NotCalled
    /\ results = EmptyDict
    /\ report = NoReport
    /\ lte_pc = "pull_jove_data"
    /\ lte_routers = EmptyDict
    /\ lte_results = EmptyDict

\* a run over a batch of up to MaxLines service lines
Next ==
    \/ GetServiceLine(BatchUsages, MaxLines)
    \/ ReturnStarRouters
    \/ GetVenusInterfaces
    \/ GetAresTraffic
    \/ CompareTraffic
    \/ ReportToFile

Spec == Init /\ [][Next]_vars

\* a run over a single service line whose payload holds any array of up to
\* MaxCycles billing cycles
NextSingle ==
    \/ GetServiceLine(SingleUsages, 1)
    \/ ReturnStarRouters
    \/ GetVenusInterfaces
    \/ GetAresTraffic
    \/ CompareTraffic
    \/ ReportToFile

SpecSingle == Init /\ [][NextSingle]_vars

(***************************************************************************)
(* lte_bridgetroll: JOVE against NERO                                      *)
(*                                                                         *)
(* An iccid is a number 1..n; recent_routers lists them in that order.     *)
(* The source shows three different fields under the one key 'anon': they  *)
(* are kept apart here as usage (JOVE usage), kind (NERO device kind) and  *)
(* name (NERO device name).  Usages are integers; a percentage is the      *)
(* exact fraction num / den.                                               *)
(***************************************************************************)
JoveCap == 500      \* if count > 500: break
NeroCap == 10       \* if count > 10: break

\* pull_current_usage(iccid): zero for the iccid picked as idle
JoveUsage(iccid, idle) == [usage |-> IF iccid = idle THEN 0 ELSE 50 * iccid]

\* the loop of pull_jove_data over the recent iccids first..n
RECURSIVE JoveLoop(_, _, _, _, _)
JoveLoop(routers, first, n, count, idle) ==
    IF first > n \/ count > JoveCap THEN routers
    ELSE LET router_usage == JoveUsage(first, idle)
         IN IF router_usage.usage # 0
            THEN JoveLoop(Put(routers, first,
                              [jove_data |-> router_usage,
                               keys |-> {"jove_data"},
                               nero_data |-> NoResponse,
                               nero_bytes |-> 0]),
                          first + 1, n, count + 1, idle)
            ELSE JoveLoop(routers, first + 1, n, count, idle)

PullJoveData ==
    /\ lte_pc = "pull_jove_data"
    /\ \E n \in 0..MaxIccids :
       \E idle \in {0, 1, 2} :
           lte_routers' = JoveLoop(EmptyDict, 1, n, 0, idle)
    /\ lte_pc' = "pull_nero_data"
    /\ UNCHANGED <<pc, nLines, line, star_routers, star_order, START_DATE,
                   END_DATE, host_offset, ares_query, results, report,
                   lte_results>>

\* pull_net_devices() together with the per-device usage pulls: the devices
\* NERO knows, one of them of another kind, one of them with no usage
NeroDevices(known, other, unused) ==
    [iccid \in known |->
        [kind |-> IF iccid = other THEN "other" ELSE "anon",
         id |-> 100 + iccid,
         name |-> 200 + iccid,
         bytes |-> IF iccid = unused THEN 0 ELSE 40 * iccid + 30]]

NeroPulls ==
    LET all == 1..MaxIccids
        lacking == {{}} \cup {{a, b} : a, b \in all}
    IN {NeroDevices(all \ l, other, unused) :
            l \in lacking, other \in {0, 1, MaxIccids}, unused \in {0, 1, 2, 3}}

\* d.pop(k)
Pop(d, k) == [n \in DOMAIN d \ {k} |-> d[n]]

\* the keys of a dict of iccids, in insertion order, from iccid first on
RECURSIVE ItemsFrom(_, _)
ItemsFrom(d, first) ==
    IF first > MaxIccids THEN <<>>
    ELSE (IF first \in DOMAIN d THEN <<first>> ELSE <<>>) \o ItemsFrom(d, first + 1)

\* the loop of pull_nero_data over list(lte_routers.items())
RECURSIVE NeroLoop(_, _, _, _)
NeroLoop(routers, items, count, nero_routers) ==
    IF items = <<>> THEN routers
    ELSE LET iccid == Head(items)
             found == /\ iccid \in DOMAIN nero_routers
                      /\ nero_routers[iccid].kind = "anon"
             lte_router ==
                 IF found
                 THEN [routers[iccid] EXCEPT
                          !.nero_data = nero_routers[iccid],
                          !.nero_bytes = nero_routers[iccid].bytes,
                          !.keys = @ \cup {"nero_data", "nero_bytes"}]
                 ELSE routers[iccid]
         IN IF "nero_data" \notin lte_router.keys \/ "nero_bytes" \notin lte_router.keys
            THEN NeroLoop(Pop(routers, iccid), Tail(items), count, nero_routers)
            ELSE IF count + 1 > NeroCap
                 THEN [routers EXCEPT ![iccid] = lte_router]
                 ELSE NeroLoop([routers EXCEPT ![iccid] = lte_router],
                               Tail(items), count + 1, nero_routers)

PullNeroData ==
    /\ lte_pc = "pull_nero_data"
    /\ \E nero_routers \in NeroPulls :
           lte_routers' = NeroLoop(lte_routers, ItemsFrom(lte_routers, 1), 0,
                                   nero_routers)
    /\ lte_pc' = "compare_traffic"
    /\ UNCHANGED <<pc, nLines, line, star_routers, star_order, START_DATE,
                   END_DATE, host_offset, ares_query, results, report,
                   lte_results>>

\* the percentage without the check for a zero denominator
PercentageUnguarded(overage, nero_usage) ==
    [infinity |-> FALSE, num |-> overage * 100, den |-> nero_usage]

\* 'infinity', or (overage / nero_usage) * 100
Percentage(overage, nero_usage) ==
    IF nero_usage = 0 THEN [infinity |-> TRUE]
    ELSE [infinity |-> FALSE, num |-> overage * 100, den |-> nero_usage]

\* the loop of compare_traffic; router['nero_data'] raises KeyError on a
\* router without that key
RECURSIVE LteCompareLoop(_, _, _)
LteCompareLoop(res, routers, items) ==
    IF items = <<>> THEN [raised |-> FALSE, results |-> res]
    ELSE LET router == routers[Head(items)] IN
         IF "nero_data" \notin router.keys THEN [raised |-> TRUE, results |-> res]
         ELSE LET name == router.nero_data.name
                  jove_usage == router.jove_data.usage
                  nero_usage == router.nero_bytes
                  overage == jove_usage - nero_usage
              IN LteCompareLoop(
                     Put(res, name, [jove_usage |-> jove_usage,
                                     nero_usage |-> nero_usage,
                                     overage |-> overage,
                                     percentage |-> Percentage(overage, nero_usage)]),
                     routers, Tail(items))

LteCompareTraffic ==
    /\ lte_pc = "compare_traffic"
    /\ LET res == LteCompareLoop(EmptyDict, lte_routers, ItemsFrom(lte_routers, 1))
       IN IF res.raised
          THEN lte_pc' = "error" /\ UNCHANGED lte_results
          ELSE lte_pc' = "done" /\ lte_results' = res.results
    /\ UNCHANGED <<pc, nLines, line, star_routers, star_order, START_DATE,
                   END_DATE, host_offset, ares_query, results, report,
                   lte_routers>>

NextLte ==
    \/ PullJoveData
    \/ PullNeroData
    \/ LteCompareTraffic

SpecLte == Init /\ [][NextLte]_vars

(***************************************************************************)
(* Properties                                                              *)
(***************************************************************************)
Abs(x) == IF x < 0 THEN 0 - x ELSE x

\* an interface was mapped to the router and an inbound or outbound counter
\* line of that interface was attributed to it
HasSecondaryTotal(router) ==
    /\ router.venus_interface # ""
    /\ \E i \in 1..Len(router.ares_traffic) :
           /\ router.ares_traffic[i].iface = router.venus_interface
           /\ router.ares_traffic[i].counter \in {"ifHCInOctets", "ifHCOutOctets"}

\* C1: a router for which the flow-accounting total could not be computed
\* (no interface mapping, or no counter line matched) has no entry in the
\* results of compare_traffic.
C1_PartialDataExcluded ==
    \A name \in DOMAIN results : HasSecondaryTotal(star_routers[name])

\* the window section 4.3 prescribes for a billing window: the end date less
\* one day, both boundaries taken from UTC midnight to UTC-7
AlignedWindow(start_date, end_date) ==
    [called |-> TRUE,
     start_date |-> Strftime(AddHours(Strptime(start_date), 0 - 7)),
     end_date |-> Strftime(AddHours(PrevDay(Strptime(end_date)), 0 - 7))]

\* C2: for every router compared, the flow-accounting window queried is the
\* time-aligned equivalent of that router's own billing window.
C2_OwnWindowQueried ==
    \A name \in DOMAIN results :
        ares_query = AlignedWindow(star_routers[name].start_date,
                                   star_routers[name].end_date)

\* C3: deadband - whenever |overage| <= leeway, whatever the sign of the
\* overage, over_leeway is exactly 0 (overage being star_total - ares_total).
C3_Deadband ==
    \A name \in DOMAIN results :
        LET r == results[name] IN
        /\ r.overage = r.star_total - r.ares_total
        /\ Abs(r.overage) <= r.leeway => r.over_leeway = 0

\* both signs of an overage within the leeway have been compared
C3_Witness ==
    \E a, b \in DOMAIN results :
        /\ results[a].overage > 0 /\ results[a].overage <= results[a].leeway
        /\ results[b].overage < 0 /\ 0 - results[b].overage < results[b].leeway

\* C4: sign preservation - an overage above the leeway is reported less the
\* leeway and stays positive; an overage below minus the leeway is reported
\* plus the leeway and stays negative.
C4_SignPreservation ==
    \A name \in DOMAIN results :
        LET r == results[name] IN
        /\ r.overage > r.leeway =>
               r.over_leeway = r.overage - r.leeway /\ r.over_leeway > 0
        /\ r.overage < 0 - r.leeway =>
               r.over_leeway = r.overage + r.leeway /\ r.over_leeway < 0

\* the 130.00 / 1.05 / 118.00 scenario next to a router whose overage is
\* below minus its leeway
C4_Witness ==
    \E a, b \in DOMAIN results :
        /\ results[a] = [star_total |-> 130000, leeway |-> 1050,
                         ares_total |-> 118000, overage |-> 12000,
                         over_leeway |-> 10950]
        /\ results[b].overage < 0 - results[b].leeway
        /\ results[b].over_leeway < 0

IsScenario120(r) ==
    r.star_total = 120000 /\ r.leeway = 1050 /\ r.ares_total = 118000

\* C5 as stated: with primary 120.00, budget 1.05 and secondary 118.00 the
\* overage is 2.00 and the leeway-adjusted overage is 0.
C5_Scenario120AsStated ==
    \A name \in DOMAIN results :
        IsScenario120(results[name]) =>
            results[name].overage = 2000 /\ results[name].over_leeway = 0

\* C5: with primary 120.00, budget 1.05 and secondary 118.00 the overage is
\* 2.00 and the leeway-adjusted overage is 0.95, the excess over the budget.
C5_Scenario120 ==
    \A name \in DOMAIN results :
        IsScenario120(results[name]) =>
            results[name].overage = 2000 /\ results[name].over_leeway = 950

C5_Witness == \E name \in DOMAIN results : IsScenario120(results[name])

\* C6: for the billing window 2024-09-01 to 2024-10-01 the window handed to
\* the flow-accounting query is 2024-08-31 17:00:00 to 2024-09-30 17:00:00,
\* whatever else holds of the run.
C6_AlignedWindowScenario ==
    (/\ ares_query.called
     /\ star_order # <<>>
     /\ star_routers[star_order[1]].start_date = <<2024, 9, 1>>
     /\ star_routers[star_order[1]].end_date = <<2024, 10, 1>>)
    => /\ ares_query.start_date = <<2024, 8, 31, 17, 0, 0>>
       /\ ares_query.end_date = <<2024, 9, 30, 17, 0, 0>>

\* C7: with an empty router batch the flow-accounting query interface is
\* never invoked.
C7_NoPullOnEmptyBatch ==
    DOMAIN star_routers = {} => ares_query = NotCalled

DistinctStarts(cycles) ==
    \A i, j \in 1..Len(cycles) :
        i # j => cycles[i].startDate # cycles[j].startDate

\* C8: when the cycles of a payload have distinct start timestamps, the
\* router's (start_date, end_date) are the dates of the start and end
\* timestamps of the cycle that starts before every other one, wherever it
\* stands in the array.
C8_EarliestCycleWindow ==
    \A name \in DOMAIN star_routers :
        LET r == star_routers[name]
            cycles == r.star_traffic.billingCycles
        IN (Len(cycles) >= 1 /\ DistinctStarts(cycles)) =>
            \E i \in 1..Len(cycles) :
                /\ \A j \in 1..Len(cycles) :
                       j # i => StrLess(cycles[i].startDate, cycles[j].startDate)
                /\ r.start_date = SubSeq(cycles[i].startDate, 1, 3)
                /\ r.end_date = SubSeq(cycles[i].endDate, 1, 3)

\* a router built from a payload whose earliest cycle is not the first of
\* the array
C8_Witness ==
    \E name \in DOMAIN star_routers :
        LET cycles == star_routers[name].star_traffic.billingCycles
        IN /\ Len(cycles) >= 2
           /\ DistinctStarts(cycles)
           /\ \E i \in 2..Len(cycles) :
                  StrLess(cycles[i].startDate, cycles[1].startDate)

\* every bin of every day, in order
RECURSIVE AllBins(_)
AllBins(days) ==
    IF days = <<>> THEN <<>>
    ELSE Head(days).dataUsageBins \o AllBins(Tail(days))

RECURSIVE SumGB(_)
SumGB(bins) == IF bins = <<>> THEN 0 ELSE Head(bins).totalGB + SumGB(Tail(bins))

ZeroCycleLine ==
    /\ line # NoLine
    /\ Constructs(line)
    /\ Len(line.usage.content.billingCycles) = 0

\* C10: a payload with zero billing cycles makes the construction fail and
\* the failure ends the run; no router built from such a payload is in the
\* router set or in the results.
C10_ZeroCyclesFatal ==
    /\ ZeroCycleLine => pc = "error" /\ results = EmptyDict
    /\ \A name \in DOMAIN star_routers :
           Len(star_routers[name].star_traffic.billingCycles) >= 1
    /\ DOMAIN results \subseteq DOMAIN star_routers

\* the run failed on a zero-cycle payload after a router had been stored
C10_Witness ==
    /\ ZeroCycleLine
    /\ pc = "error"
    /\ star_order # <<>>

\* the value of the first line of the traffic that carries the counter of
\* the interface, 0 when there is none
CounterValue(traffic, iface, counter) ==
    LET hits == {i \in 1..Len(traffic) :
                    traffic[i].iface = iface /\ traffic[i].counter = counter}
    IN IF hits = {} THEN 0
       ELSE traffic[CHOOSE i \in hits : \A j \in hits : i <= j].value

\* C11: ares_total is 1e-9 times the sum of the inbound and the outbound
\* octet counter of the router's interface, looked up only among the lines
\* whose leading field names the router, and 0 when neither is found.
C11_AresTotal ==
    \A name \in DOMAIN results :
        LET r == star_routers[name] IN
        /\ \A i \in 1..Len(r.ares_traffic) : Upper(r.ares_traffic[i].prefix) = name
        /\ results[name].ares_total =
               10 * (CounterValue(r.ares_traffic, r.venus_interface, "ifHCInOctets")
                     + CounterValue(r.ares_traffic, r.venus_interface, "ifHCOutOctets"))

\* C14: the window printed in the report header is the billing window of
\* the router get_ares_traffic takes as its reference, the first value of
\* the router dict.
C14_ReportedWindowIsReference ==
    (report.written /\ star_order # <<>>) =>
        report.header = <<star_routers[star_order[1]].start_date,
                          star_routers[star_order[1]].end_date>>

\* get_ares_traffic ended in an exception
AresRaised == pc = "error" /\ ares_query.called

\* C15: a line of the blob is attributed to the router named by its
\* upper-cased first 8 characters, and only when its 9th character is '-';
\* any other line, however short, is passed over without an error.
C15_LinesAttributedOrIgnored ==
    /\ ~AresRaised
    /\ \A name \in DOMAIN star_routers :
           \A i \in 1..Len(star_routers[name].ares_traffic) :
               /\ Upper(star_routers[name].ares_traffic[i].prefix) = name
               /\ star_routers[name].ares_traffic[i].ch9 = "-"

\* C12: a router whose nero_usage is exactly zero is reported with the
\* sentinel 'infinity' and nothing is divided; any other router is reported
\* with (overage / nero_usage) x 100, overage being jove_usage - nero_usage.
C12_ZeroDenominatorSentinel ==
    \A name \in DOMAIN lte_results :
        LET r == lte_results[name] IN
        /\ r.overage = r.jove_usage - r.nero_usage
        /\ r.nero_usage = 0 => r.percentage.infinity
        /\ r.nero_usage # 0 =>
               /\ ~r.percentage.infinity
               /\ r.percentage.den # 0
               /\ r.percentage.num * r.nero_usage
                      = r.overage * 100 * r.percentage.den

\* results that hold a router without NERO usage next to one with usage
C12_Witness ==
    \E a, b \in DOMAIN lte_results :
        /\ lte_results[a].nero_usage = 0
        /\ lte_results[b].nero_usage # 0
        /\ lte_results[b].overage < 0

\* C13: every router left in the dict pull_nero_data returns carries both
\* 'nero_data' and 'nero_bytes', however many routers the batch holds.
C13_NeroDataPopulated ==
    lte_pc \in {"compare_traffic", "done", "error"} =>
        \A iccid \in DOMAIN lte_routers :
            {"nero_data", "nero_bytes"} \subseteq lte_routers[iccid].keys

====
